---- MODULE Spec2Model ----
(***************************************************************************)
(* Model of the go-mutesting mutation pipeline: mainCmd, mutate,           *)
(* mutateExec and saveAST (cmd/go-mutesting/main.go), the loop/range_break *)
(* operator, and the walker goroutine that talks to mutate over the        *)
(* unbuffered channel `changed`.                                           *)
(***************************************************************************)
EXTENDS Integers, Sequences, FiniteSets, TLC

\* ------------------------------------------------------------- bounds
NumFiles == 2          \* source files handed to one run
HashMod == 4           \* size of the fingerprint space standing in for MD5
MaxFaults == 1         \* failed system calls and serializer errors in one run

Files == 1..NumFiles
Checksums == 0..(HashMod - 1)

\* exit statuses a child process can report; -1 is ExitStatus() of a
\* process ended by a signal
ExitStatuses == {-1, 0, 1, 2, 3}

\* ------------------------------------------------------------- syntax trees
\* A tree is a tuple of nodes; node 1 is the file, node 0 (not stored) is
\* the BranchStmt{Tok: BREAK} and node -1 (not stored) the no-op statement
\* that operators create.
Root == 1
BreakStmt == 0
NoopStmt == -1

Stmt == [kind |-> "stmt", body |-> <<>>]
RangeStmt(b) == [kind |-> "range", body |-> b]
FileNode(b) == [kind |-> "file", body |-> b]

\* a file without a loop, and a file with a loop that holds a statement and
\* an inner loop
TreeShapes ==
  { <<FileNode(<<2>>), Stmt>>,
    <<FileNode(<<2>>), RangeStmt(<<3, 4>>), Stmt, RangeStmt(<<>>)>> }

NodeKind(t, n) ==
  IF n = BreakStmt THEN "break" ELSE IF n = NoopStmt THEN "noop" ELSE t[n].kind
Children(t, n) == IF n \in {BreakStmt, NoopStmt} THEN <<>> ELSE t[n].body

\* ------------------------------------------------------------- serializer
Indent(d) == [i \in 1..d |-> "sp"]

StmtToken(n) == CASE n = 2 -> "s2" [] n = 3 -> "s3" [] n = 4 -> "s4" [] OTHER -> "s"

RECURSIVE PrintNode(_, _, _), PrintList(_, _, _)
\* printer.Fprint: the token stream of the tree as it is now
PrintNode(t, n, d) ==
  CASE NodeKind(t, n) = "break" -> Indent(d) \o <<"break">>
    [] NodeKind(t, n) = "noop"  -> Indent(d) \o <<"noop">>
    [] NodeKind(t, n) = "stmt"  -> Indent(d) \o <<StmtToken(n)>>
    [] NodeKind(t, n) = "range" ->
         Indent(d) \o <<"for">> \o PrintList(t, t[n].body, d + 1) \o Indent(d) \o <<"end">>
    [] NodeKind(t, n) = "file"  -> <<"package">> \o PrintList(t, t[n].body, 0)

PrintList(t, l, d) ==
  IF l = <<>> THEN <<>> ELSE PrintNode(t, Head(l), d) \o PrintList(t, Tail(l), d)

Fprint(t) == PrintNode(t, Root, 0)

\* format.Source: re-indents the printed text (blanks become tabs)
FormatSource(bytes) == [i \in DOMAIN bytes |-> IF bytes[i] = "sp" THEN "tab" ELSE bytes[i]]

TokenCode(tok) ==
  CASE tok = "package" -> 1 [] tok = "for" -> 2 [] tok = "end" -> 3
    [] tok = "break" -> 4 [] tok = "sp" -> 5 [] tok = "tab" -> 6
    [] tok = "s2" -> 7 [] tok = "s3" -> 8 [] tok = "s4" -> 9 [] tok = "noop" -> 11
    [] OTHER -> 10

RECURSIVE WeightedSum(_, _)
WeightedSum(bytes, i) ==
  IF i > Len(bytes) THEN 0 ELSE i * TokenCode(bytes[i]) + WeightedSum(bytes, i + 1)

\* md5 + "%x": a fixed-width fingerprint of the printed bytes (not injective)
Checksum(bytes) == WeightedSum(bytes, 1) % HashMod

\* ------------------------------------------------------------- operators
\* (mutant) Change that assigns the old body
RangeBreakChangeNothing(t, m) == [t EXCEPT ![m.node].body = m.oldBody]

\* (mutant) Reset that assigns the new body
RangeBreakResetKeeps(t, m) == [t EXCEPT ![m.node].body = m.newBody]

\* Change: n.Body = newBody
RangeBreakChange(t, m) == [t EXCEPT ![m.node].body = m.newBody]

\* Reset: n.Body = oldBody
RangeBreakReset(t, m) == [t EXCEPT ![m.node].body = m.oldBody]

\* (mutant) the break is appended after the statements of the body
MutatorLoopRangeBreakAppends(t, n) ==
  IF NodeKind(t, n) # "range" THEN <<>>
  ELSE << [node |-> n, newBody |-> t[n].body \o <<BreakStmt>>, oldBody |-> t[n].body] >>

\* loop/range_break: one mutation for a RangeStmt, none for any other node.
\* newBody and oldBody are captured when the operator is called.
MutatorLoopRangeBreak(t, n) ==
  IF NodeKind(t, n) # "range" THEN <<>>
  ELSE << [node |-> n, newBody |-> <<BreakStmt>> \o t[n].body, oldBody |-> t[n].body] >>

\* statement/remove: at a block, one mutation for every plain statement of
\* its list, in the order of the list; the statement becomes a no-op.  Its
\* Change and Reset assign the list of the block, as those of loop/range_break.
MutatorRemoveStatement(t, n) ==
  IF NodeKind(t, n) # "range" THEN <<>>
  ELSE LET body == t[n].body
           Removable(i) == NodeKind(t, body[i]) = "stmt"
           sites == SelectSeq([i \in 1..Len(body) |-> i], Removable)
       IN  [k \in 1..Len(sites) |->
              [node |-> n, newBody |-> [body EXCEPT ![sites[k]] = NoopStmt],
               oldBody |-> body]]

\* mutator.List(): the names of the registered operators, sorted
MutatorList == << "loop/range_break", "statement/remove" >>

RunMutator(name, t, n) ==
  CASE name = "loop/range_break" -> MutatorLoopRangeBreak(t, n)
    [] name = "statement/remove" -> MutatorRemoveStatement(t, n)
    [] OTHER -> <<>>

\* ------------------------------------------------------------- annotations
\* Nodes are numbered in the order they stand in the file; node n starts on
\* line 3n, which leaves the two lines before it to comments.
NodeLine(n) == 3 * n
\* node.Pos()
NodePos(n) == n

\* a comment with the mutator-disable-next-line directive: its first and last
\* line and the operator names after the directive
Comment(start, end, names) == [start |-> start, end |-> end, names |-> names]

\* the directive comments one file may hold: none, one line right before the
\* outer statement, the same over two lines, one line with an empty line
\* after it, and one line with names before the outer and the inner statement
CommentInputs ==
  { <<>>,
    <<Comment(NodeLine(2) - 1, NodeLine(2) - 1, {})>>,
    <<Comment(NodeLine(2) - 2, NodeLine(2) - 1, {})>>,
    <<Comment(NodeLine(2) - 2, NodeLine(2) - 2, {})>>,
    <<Comment(NodeLine(2) - 1, NodeLine(2) - 1, {"statement/remove"})>>,
    <<Comment(NodeLine(4) - 1, NodeLine(4) - 1, {"loop/*"})>> }

\* parseLineAnnotation: the names after the directive, none meaning all
parseLineAnnotation(c) == [Names |-> c.names]

\* findLine: the lines on which the comment starts and ends
findLine(c) == <<c.start, c.end>>

\* a name of a directive matches the operator of that name; with a trailing
\* star it matches every operator whose name starts with the text before it
PatternMatches(pattern, name) ==
  \/ pattern = name
  \/ pattern = "loop/*" /\ name = "loop/range_break"
  \/ pattern = "statement/*" /\ name = "statement/remove"

shouldSkipMutator(info, mutatorName) ==
  info.Names = {} \/ \E pattern \in info.Names : PatternMatches(pattern, mutatorName)

\* collectExcludedNodes: every node of the file that starts on one of the
\* lines is entered into exclusions[line][pos]
collectExcludedNodes(t, lines, excl, info) ==
  LET found == {[line |-> NodeLine(n), pos |-> NodePos(n)] :
                  n \in {k \in DOMAIN t : NodeLine(k) \in lines}}
  IN  {e \in excl : [line |-> e.line, pos |-> e.pos] \notin found}
        \cup {[line |-> x.line, pos |-> x.pos, info |-> info] : x \in found}

\* (mutant) the nodes of the comment's own line are collected
collectNodesOnSameLine(t, c, excl) ==
  collectExcludedNodes(t, {findLine(c)[1]}, excl, parseLineAnnotation(c))

\* collectNodesOnNextLine: nextLine stays 0 unless the comment starts and ends
\* on one line
collectNodesOnNextLine(t, c, excl) ==
  LET info == parseLineAnnotation(c)
      start == findLine(c)[1]
      end == findLine(c)[2]
      nextLine == IF start = end THEN start + 1 ELSE 0
  IN  collectExcludedNodes(t, {nextLine}, excl, info)

RECURSIVE Collect(_, _, _)
\* the collector pass of the parser over the directive comments of a file
Collect(t, cs, excl) ==
  IF cs = <<>> THEN excl
  ELSE Collect(t, Tail(cs), collectNodesOnNextLine(t, Head(cs), excl))

\* (mutant) a filter that lets every node through
filterNothing(excl, n, mutatorName) == FALSE

\* filterNodesOnNextLine: whether the node is excluded for the operator
filterNodesOnNextLine(excl, n, mutatorName) ==
  \E e \in excl : e.pos = NodePos(n) /\ shouldSkipMutator(e.info, mutatorName)

\* annotation.DecoratorFilter: the operator behind the filters
DecoratorFilter(name, t, n, excl) ==
  IF filterNodesOnNextLine(excl, n, name) THEN <<>> ELSE RunMutator(name, t, n)

\* ------------------------------------------------------------- files on disk
Absent == [exists |-> FALSE, bytes |-> <<>>]
Existing(b) == [exists |-> TRUE, bytes |-> b]

\* what a failed CopyFile can leave at the destination
PartialCopies == {Absent, Existing(<<>>)}

\* ------------------------------------------------------------- state
VARIABLES
  opts,               \* --no-exec, whether --exec names a command,
                      \* --do-not-remove-tmp-folder, the --disable entries
  blacklistFiles,     \* the fingerprints read from the --blacklist files
  mutationBlackList,  \* the seen-set
  parsed,             \* parsed[f]: the tree of file f as the parser returned it
  src,                \* src[f]: the tree of file f as it is now
  disk,               \* disk[f]: the source file of f and its ".tmp" sibling
  tmpDir,             \* the mutation files written so far
  report,             \* models.Report
  fileIdx,            \* mainCmd: index of the file being mutated
  mIdx,               \* mutate: index of the operator being run
  mutationID,         \* mutate: the running mutation number
  cpc,                \* where the main goroutine is
  saved,              \* mutate: what saveAST returned for the current mutant
  execExitCode,       \* mutate: what mutateExec returned for the current mutant
  testStatus,         \* mutateExec: the exit status of the test command
  execErr,            \* mutateExec: err of the test command: "nil", "exit" or "other"
  wpc,                \* where the walker goroutine is
  wstack,             \* walker: nodes still to visit, next first
  wnode,              \* walker: the node being visited
  wmuts,              \* walker: mutations of wnode not yet applied
  wcur,               \* walker: the mutation applied last
  closed,             \* whether the channel `changed` is closed
  yields,             \* how many mutants the consumer has received
  acks,               \* acknowledgments sent for the current mutant
  faults,             \* failures the environment has produced so far
  yielded,            \* the mutants received so far: file, operator, node, new body
  comments,           \* comments[f]: the directive comments of file f
  exclusions,         \* LineAnnotation.Exclusions of the file being mutated
  tmpDirExists        \* whether the temp directory of the run exists

vars == << opts, blacklistFiles, mutationBlackList, parsed, src, disk, tmpDir, report,
           fileIdx, mIdx, mutationID, cpc, saved, execExitCode, testStatus, execErr,
           wpc, wstack, wnode, wmuts, wcur, closed, yields, acks, faults,
           yielded, comments, exclusions, tmpDirExists >>

walkerVars == << wpc, wstack, wnode, wmuts, wcur, closed >>
envVars == << opts, blacklistFiles, parsed, comments >>

\* a call that fails uses up one of the failures of the run
Failed(ok) == IF ok THEN 0 ELSE 1

NoMutation == [node |-> 0, newBody |-> <<>>, oldBody |-> <<>>]
NoSave == [checksum |-> -1, duplicate |-> FALSE, err |-> FALSE, bytes |-> <<>>]

EmptyReport ==
  [ Killed |-> <<>>, Escaped |-> <<>>, Errored |-> <<>>,
    Stats |-> [ KilledCount |-> 0, EscapedCount |-> 0, SkippedCount |-> 0,
                DuplicatedCount |-> 0, ErrorCount |-> 0, TotalMutantsCount |-> 0,
                Msi |-> <<0, 1>> ] ]

\* the contents of file f before the run
PreRun(f) == Existing(FormatSource(Fprint(parsed[f])))

\* what the --blacklist files of a run hold: nothing, or one fingerprint
BlacklistInputs == {{}, {0}, {HashMod - 1}}

\* (mutant) the blacklist lines are read and dropped
LoadBlacklistNothing(lines) == {}

\* mainCmd's blacklist loop: every non-empty line of every file enters the set
LoadBlacklist(lines) == {c \in Checksums : c \in lines}

\* ------------------------------------------------------------- selection
\* the characters of the operator names and of the --disable entries
Bytes(s) ==
  CASE s = "loop/range_break" -> << "l", "o", "o", "p", "/", "r", "a", "n", "g", "e", "_", "b", "r", "e", "a", "k" >>
    [] s = "statement/remove" -> << "s", "t", "a", "t", "e", "m", "e", "n", "t", "/", "r", "e", "m", "o", "v", "e" >>
    [] s = "*" -> << "*" >>
    [] s = "loop/*" -> << "l", "o", "o", "p", "/", "*" >>
    [] s = "loop/x*" -> << "l", "o", "o", "p", "/", "x", "*" >>
    [] s = "s*" -> << "s", "*" >>
    [] s = "l*" -> << "l", "*" >>

\* strings.HasSuffix(s, suffix) and strings.HasPrefix(s, prefix)
HasSuffix(s, suffix) ==
  /\ Len(suffix) <= Len(s)
  /\ SubSeq(s, Len(s) - Len(suffix) + 1, Len(s)) = suffix
HasPrefix(s, prefix) ==
  /\ Len(prefix) <= Len(s)
  /\ SubSeq(s, 1, Len(prefix)) = prefix

\* the values of opts.Mutator.DisableMutators
DisableInputs ==
  { <<>>, << "*" >>, << "loop/*" >>, << "statement/remove" >>, << "loop/x*" >>,
    << "s*" >>, << "l*", "*" >>, << "statement/remove", "*" >> }

\* the loop over opts.Mutator.DisableMutators for one operator name: "disable"
\* at the first entry that matches (continue MUTATOR), "enable" when none
\* does, "panic" when d[:len(d)-2] is evaluated for an entry of one character
RECURSIVE MatchEntries(_, _)
MatchEntries(name, ds) ==
  IF ds = <<>> THEN "enable"
  ELSE LET d == Bytes(Head(ds))
           pattern == HasSuffix(d, << "*" >>)
       IN  IF pattern /\ Len(d) < 2 THEN "panic"
           ELSE IF \/ pattern /\ HasPrefix(Bytes(name), SubSeq(d, 1, Len(d) - 2))
                   \/ ~pattern /\ Bytes(name) = d
             THEN "disable"
           ELSE MatchEntries(name, Tail(ds))

\* whether the selection of the operators ends in a runtime panic
SelectPanics(ds) == \E i \in 1..Len(MutatorList) : MatchEntries(MutatorList[i], ds) = "panic"

\* the names appended to `mutators`, in the order of mutator.List()
Selected(ds) ==
  LET enabled(name) == MatchEntries(name, ds) = "enable"
  IN  SelectSeq(MutatorList, enabled)

\* (mutant) every enabled operator is put in front of the ones before it
mutatorsPrepended ==
  [i \in 1..Len(MutatorList) |-> [Name |-> MutatorList[Len(MutatorList) + 1 - i]]]

\* the enabled operators, appended in the order of mutator.List()
mutators ==
  [i \in 1..Len(Selected(opts.DisableMutators)) |->
     [Name |-> Selected(opts.DisableMutators)[i]]]

\* the options of a run; the temp folder is kept in runs of the built-in test
\* command only
OptionInputs ==
  { o \in [NoExec : BOOLEAN, Exec : BOOLEAN, DoNotRemoveTmpFolder : BOOLEAN] :
      o.DoNotRemoveTmpFolder => (~o.NoExec /\ ~o.Exec) }

\* the state in which the operators are selected (the blacklist files are
\* read), for given options, --disable entries, blacklist files and directive
\* comments
Start(options, disables, blacklists, annotations) ==
  /\ \E o \in options, ds \in disables :
       opts = [NoExec |-> o.NoExec, Exec |-> o.Exec,
               DoNotRemoveTmpFolder |-> o.DoNotRemoveTmpFolder,
               DisableMutators |-> ds]
  /\ blacklistFiles \in blacklists
  /\ mutationBlackList = LoadBlacklist(blacklistFiles)
  /\ parsed \in [Files -> TreeShapes]
  /\ src = parsed
  /\ disk = [f \in Files |-> [file |-> PreRun(f), tmp |-> Absent]]
  /\ tmpDir = {}
  /\ report = EmptyReport
  /\ fileIdx = 1
  /\ mIdx = 0
  /\ mutationID = 0
  /\ cpc = "select"
  /\ saved = NoSave
  /\ execExitCode = 0
  /\ testStatus = 0
  /\ execErr = "nil"
  /\ wpc = "idle"
  /\ wstack = <<>>
  /\ wnode = 0
  /\ wmuts = <<>>
  /\ wcur = NoMutation
  /\ closed = FALSE
  /\ yields = 0
  /\ acks = 0
  /\ faults = 0
  /\ yielded = <<>>
  /\ comments \in annotations
  /\ exclusions = {}
  /\ tmpDirExists = FALSE

\* runs over files without directive comments
Init == Start(OptionInputs, {<<>>}, BlacklistInputs, {[f \in Files |-> <<>>]})

\* runs that execute every mutant and remove the temp folder, without
\* blacklist files and directives
InitFair ==
  Start({o \in OptionInputs : ~o.NoExec /\ ~o.DoNotRemoveTmpFolder}, {<<>>}, {{}},
        {[f \in Files |-> <<>>]})

\* runs that execute every mutant, without blacklist files, in which the
\* first file holds a directive
InitAnnotated ==
  Start({o \in OptionInputs : ~o.NoExec /\ ~o.DoNotRemoveTmpFolder}, {<<>>}, {{}},
        {c \in [Files -> CommentInputs] : \A f \in Files : f > 1 => c[f] = <<>>})

\* runs that execute every mutant and remove the temp folder, without
\* blacklist files and directives, with --disable entries
InitDisable ==
  Start({o \in OptionInputs : ~o.NoExec /\ ~o.DoNotRemoveTmpFolder}, DisableInputs,
        {{}}, {[f \in Files |-> <<>>]})

\* ------------------------------------------------------------- the walker
\* MutateWalk starts a goroutine that walks the node depth-first, pre-order,
\* and closes the channel when the walk is over.

\* Visit(node): hand the node to the (filter-decorated) operator
WalkerVisit ==
  /\ wpc = "visit"
  /\ wstack # <<>>
  /\ wnode' = Head(wstack)
  /\ wstack' = Tail(wstack)
  /\ wmuts' = DecoratorFilter(mutators[mIdx].Name, src[fileIdx], Head(wstack), exclusions)
  /\ wpc' = "mutations"
  /\ UNCHANGED << envVars, mutationBlackList, src, disk, tmpDir, report, fileIdx, mIdx,
                  mutationID, cpc, saved, execExitCode, testStatus, execErr, wcur, closed,
                  yields, acks, faults,
                  yielded, exclusions, tmpDirExists >>

\* step a: apply the next mutation of the node
WalkerChange ==
  /\ wpc = "mutations"
  /\ wmuts # <<>>
  /\ src' = [src EXCEPT ![fileIdx] = RangeBreakChange(src[fileIdx], Head(wmuts))]
  /\ wcur' = Head(wmuts)
  /\ wmuts' = Tail(wmuts)
  /\ wpc' = "yield"
  /\ UNCHANGED << envVars, mutationBlackList, disk, tmpDir, report, fileIdx, mIdx,
                  mutationID, cpc, saved, execExitCode, testStatus, execErr, wstack, wnode,
                  closed, yields, acks, faults,
                  yielded, exclusions, tmpDirExists >>

\* Visit returns: the walk goes on with the children of the node
WalkerDescend ==
  /\ wpc = "mutations"
  /\ wmuts = <<>>
  /\ wstack' = Children(src[fileIdx], wnode) \o wstack
  /\ wpc' = "visit"
  /\ UNCHANGED << envVars, mutationBlackList, src, disk, tmpDir, report, fileIdx, mIdx,
                  mutationID, cpc, saved, execExitCode, testStatus, execErr, wnode, wmuts, wcur,
                  closed, yields, acks, faults,
                  yielded, exclusions, tmpDirExists >>

\* step d: revert the mutation
WalkerReset ==
  /\ wpc = "reset"
  /\ src' = [src EXCEPT ![fileIdx] = RangeBreakReset(src[fileIdx], wcur)]
  /\ wpc' = "signal"
  /\ UNCHANGED << envVars, mutationBlackList, disk, tmpDir, report, fileIdx, mIdx,
                  mutationID, cpc, saved, execExitCode, testStatus, execErr, wstack, wnode,
                  wmuts, wcur, closed, yields, acks, faults,
                  yielded, exclusions, tmpDirExists >>

\* the walk is over: close(changed)
WalkerClose ==
  /\ wpc = "visit"
  /\ wstack = <<>>
  /\ closed' = TRUE
  /\ wpc' = "idle"
  /\ UNCHANGED << envVars, mutationBlackList, src, disk, tmpDir, report, fileIdx, mIdx,
                  mutationID, cpc, saved, execExitCode, testStatus, execErr, wstack, wnode,
                  wmuts, wcur, yields, acks, faults,
                  yielded, exclusions, tmpDirExists >>

\* ------------------------------------------------------------- the channel
\* `changed` is unbuffered: a send and the matching receive are one step.

\* step b / `_, ok := <-changed` with ok = true
Yield ==
  /\ wpc = "yield"
  /\ cpc = "recv"
  /\ wpc' = "ack1"
  /\ cpc' = "save"
  /\ yields' = yields + 1
  /\ acks' = 0
  /\ yielded' = Append(yielded, [file |-> fileIdx, op |-> mutators[mIdx].Name,
                                  node |-> wcur.node, body |-> wcur.newBody])
  /\ UNCHANGED << envVars, mutationBlackList, src, disk, tmpDir, report, fileIdx, mIdx,
                  mutationID, saved, execExitCode, testStatus, execErr, wstack, wnode, wmuts,
                  wcur, closed, faults, exclusions, tmpDirExists >>

\* (mutant) the first acknowledgment is sent before the mutant is processed
Ack1Early ==
  /\ cpc = "save"
  /\ wpc = "ack1"
  /\ wpc' = "reset"
  /\ acks' = acks + 1
  /\ UNCHANGED << envVars, mutationBlackList, src, disk, tmpDir, report, fileIdx, mIdx,
                  mutationID, cpc, saved, execExitCode, testStatus, execErr, wstack,
                  wnode, wmuts, wcur, closed, yields, faults,
                  yielded, exclusions, tmpDirExists >>

\* `changed <- true` after the mutant is processed / step c
Ack1 ==
  /\ cpc = "ack1"
  /\ wpc = "ack1"
  /\ cpc' = "original"
  /\ wpc' = "reset"
  /\ acks' = acks + 1
  /\ saved' = NoSave
  /\ execExitCode' = 0
  /\ testStatus' = 0
  /\ execErr' = "nil"
  /\ UNCHANGED << envVars, mutationBlackList, src, disk, tmpDir, report, fileIdx, mIdx,
                  mutationID, wstack, wnode, wmuts, wcur, closed, yields, faults,
                  yielded, exclusions, tmpDirExists >>

\* the walker sends the reverted state / `<-changed` ("Ignore original state")
Original ==
  /\ wpc = "signal"
  /\ cpc = "original"
  /\ wpc' = "ack2"
  /\ cpc' = "ack2"
  /\ UNCHANGED << envVars, mutationBlackList, src, disk, tmpDir, report, fileIdx, mIdx,
                  mutationID, saved, execExitCode, testStatus, execErr, wstack, wnode, wmuts,
                  wcur, closed, yields, acks, faults,
                  yielded, exclusions, tmpDirExists >>

\* (mutant) mutate goes back to its receive without the second send
Ack2Forgotten ==
  /\ cpc = "ack2"
  /\ wpc = "ack2"
  /\ cpc' = "recv"
  /\ mutationID' = mutationID + 1
  /\ UNCHANGED << envVars, mutationBlackList, src, disk, tmpDir, report, fileIdx, mIdx,
                  saved, execExitCode, testStatus, execErr, walkerVars, yields, acks, faults,
                  yielded, exclusions, tmpDirExists >>

\* second `changed <- true`, then mutationID++ / step e
Ack2 ==
  /\ cpc = "ack2"
  /\ wpc = "ack2"
  /\ cpc' = "recv"
  /\ wpc' = "mutations"
  /\ acks' = acks + 1
  /\ mutationID' = mutationID + 1
  /\ UNCHANGED << envVars, mutationBlackList, src, disk, tmpDir, report, fileIdx, mIdx,
                  saved, execExitCode, testStatus, execErr, wstack, wnode, wmuts, wcur, closed,
                  yields, faults,
                  yielded, exclusions, tmpDirExists >>

\* `_, ok := <-changed` with ok = false: break, next operator
RecvClosed ==
  /\ cpc = "recv"
  /\ closed
  /\ cpc' = "mutators"
  /\ mIdx' = mIdx + 1
  /\ UNCHANGED << envVars, mutationBlackList, src, disk, tmpDir, report, fileIdx,
                  mutationID, saved, execExitCode, testStatus, execErr, walkerVars, yields, acks, faults,
                  yielded, exclusions, tmpDirExists >>

\* ------------------------------------------------------------- saveAST
SaveOutcomes == {"ok", "printErr", "formatErr", "writeErr"}

\* a file of the temp directory; checksum is the fingerprint mutate logs with it
MutationFile(f, id, b, c) ==
  [kind |-> "mutation", file |-> f, id |-> id, bytes |-> b, checksum |-> c]
OriginalFile(f, b) ==
  [kind |-> "original", file |-> f, id |-> 0, bytes |-> b, checksum |-> -1]

\* (mutant) saveAST that never inserts the checksum into the seen-set
saveASTNoInsert(blackList, dir, f, id, t, outcome) ==
  LET buf == Fprint(t)
      checksum == Checksum(buf)
      failed == [checksum |-> -1, duplicate |-> FALSE, err |-> TRUE, bytes |-> <<>>]
  IN  IF outcome = "printErr"
        THEN [blackList |-> blackList, dir |-> dir, ret |-> failed]
      ELSE IF checksum \in blackList
        THEN [blackList |-> blackList, dir |-> dir,
              ret |-> [checksum |-> checksum, duplicate |-> TRUE, err |-> FALSE,
                       bytes |-> <<>>]]
      ELSE IF outcome \in {"formatErr", "writeErr"}
        THEN [blackList |-> blackList, dir |-> dir, ret |-> failed]
      ELSE [blackList |-> blackList,
            dir |-> dir \cup {MutationFile(f, id, FormatSource(buf), checksum)},
            ret |-> [checksum |-> checksum, duplicate |-> FALSE, err |-> FALSE,
                     bytes |-> FormatSource(buf)]]

\* (mutant) saveAST that inserts the checksum before it looks it up
saveASTInsertFirst(blackList, dir, f, id, t, outcome) ==
  LET buf == Fprint(t)
      checksum == Checksum(buf)
      failed == [checksum |-> -1, duplicate |-> FALSE, err |-> TRUE, bytes |-> <<>>]
  IN  IF outcome = "printErr"
        THEN [blackList |-> blackList, dir |-> dir, ret |-> failed]
      ELSE [blackList |-> blackList \cup {checksum}, dir |-> dir,
            ret |-> [checksum |-> checksum, duplicate |-> TRUE, err |-> FALSE,
                     bytes |-> <<>>]]

\* saveAST(mutationBlackList, file, fset, node) with the tree t; `outcome` says
\* which of its three fallible calls fails, if any.  Gives the new seen-set,
\* the new temp directory and the triple (checksum, duplicate, err).
saveAST(blackList, dir, f, id, t, outcome) ==
  LET buf == Fprint(t)
      checksum == Checksum(buf)
      failed == [checksum |-> -1, duplicate |-> FALSE, err |-> TRUE, bytes |-> <<>>]
  IN  IF outcome = "printErr"
        THEN [blackList |-> blackList, dir |-> dir, ret |-> failed]
      ELSE IF checksum \in blackList
        THEN [blackList |-> blackList, dir |-> dir,
              ret |-> [checksum |-> checksum, duplicate |-> TRUE, err |-> FALSE,
                       bytes |-> <<>>]]
      ELSE IF outcome \in {"formatErr", "writeErr"}
        THEN [blackList |-> blackList \cup {checksum}, dir |-> dir, ret |-> failed]
      ELSE [blackList |-> blackList \cup {checksum},
            dir |-> dir \cup {MutationFile(f, id, FormatSource(buf), checksum)},
            ret |-> [checksum |-> checksum, duplicate |-> FALSE, err |-> FALSE,
                     bytes |-> FormatSource(buf)]]

\* ------------------------------------------------------------- mutateExec
\* the deferred os.Rename(file+".tmp", file), its error dropped
DeferredRename(d, ok) ==
  IF ok /\ d.tmp.exists THEN [file |-> d.tmp, tmp |-> Absent] ELSE d

\* exit status of `diff -u file mutationFile`
DiffStatus(d, bytes) ==
  IF ~d.file.exists THEN 2 ELSE IF d.file.bytes = bytes THEN 0 ELSE 1

\* (mutant) the built-in branch hands the test status on as it is
InternalCodeNoInversion(status) == status

\* the switch at the end of the built-in branch
InternalCode(status) ==
  CASE status = 0 -> 1
    [] status = 1 -> 0
    [] OTHER -> status

InternalInputs ==
  [ diffRuns : BOOLEAN, renameOk : BOOLEAN, copyOk : BOOLEAN, partial : PartialCopies,
    testRuns : BOOLEAN, status : ExitStatuses, restoreOk : BOOLEAN ]

\* mutateExec with len(execs) == 0, on the files d of one source file and the
\* bytes of the mutation file
mutateExecInternal(d, bytes, in) ==
  LET swapped == [file |-> Absent, tmp |-> d.file]
      copied == [swapped EXCEPT !.file = Existing(bytes)]
      torn == [swapped EXCEPT !.file = in.partial]
      panic(dd, e) == [disk |-> dd, panicked |-> TRUE, code |-> 0, status |-> 0, err |-> e]
  IN  IF ~in.diffRuns \/ DiffStatus(d, bytes) \notin {0, 1}
        THEN panic(d, "nil")
      ELSE IF ~(in.renameOk /\ d.file.exists)
        THEN panic(DeferredRename(d, in.restoreOk), "nil")
      ELSE IF ~in.copyOk
        THEN panic(DeferredRename(torn, in.restoreOk), "nil")
      ELSE IF ~in.testRuns
        THEN panic(DeferredRename(copied, in.restoreOk), "other")
      ELSE [disk |-> DeferredRename(copied, in.restoreOk), panicked |-> FALSE,
            code |-> InternalCode(in.status), status |-> in.status,
            err |-> IF in.status = 0 THEN "nil" ELSE "exit"]

ExternalInputs == [ starts : BOOLEAN, waits : BOOLEAN, status : ExitStatuses ]

\* (mutant) the user command's status is inverted like the test runner's
mutateExecExternalInverts(in) ==
  IF ~in.starts \/ ~in.waits
    THEN [panicked |-> TRUE, code |-> 0, status |-> 0, err |-> "other"]
    ELSE [panicked |-> FALSE, code |-> InternalCode(in.status),
          status |-> in.status, err |-> IF in.status = 0 THEN "nil" ELSE "exit"]

\* mutateExec with a user command
mutateExecExternal(in) ==
  IF ~in.starts \/ ~in.waits
    THEN [panicked |-> TRUE, code |-> 0, status |-> 0, err |-> "other"]
    ELSE [panicked |-> FALSE, code |-> in.status, status |-> in.status,
          err |-> IF in.status = 0 THEN "nil" ELSE "exit"]

\* ------------------------------------------------------------- the report
Mutant(name, f, out) == [MutatorName |-> name, OriginalFilePath |-> f, ProcessOutput |-> out]

\* (mutant) the switch with a case 2 that forgets its counter
ClassifySkipUncounted(r, code, name, f) ==
  CASE code = 0 ->
         [r EXCEPT !.Killed = Append(@, Mutant(name, f, "PASS")),
                   !.Stats.KilledCount = @ + 1]
    [] code = 1 ->
         [r EXCEPT !.Escaped = Append(@, Mutant(name, f, "FAIL")),
                   !.Stats.EscapedCount = @ + 1]
    [] code = 2 -> r
    [] OTHER ->
         [r EXCEPT !.Errored = Append(@, Mutant(name, f, "UNKOWN")),
                   !.Stats.ErrorCount = @ + 1]

\* (mutant) case 0 counts the mutant and forgets the record
ClassifyKilledUnrecorded(r, code, name, f) ==
  CASE code = 0 ->
         [r EXCEPT !.Stats.KilledCount = @ + 1]
    [] code = 1 ->
         [r EXCEPT !.Escaped = Append(@, Mutant(name, f, "FAIL")),
                   !.Stats.EscapedCount = @ + 1]
    [] code = 2 ->
         [r EXCEPT !.Stats.SkippedCount = @ + 1]
    [] OTHER ->
         [r EXCEPT !.Errored = Append(@, Mutant(name, f, "UNKOWN")),
                   !.Stats.ErrorCount = @ + 1]

\* the switch on execExitCode in mutate
Classify(r, code, name, f) ==
  CASE code = 0 ->
         [r EXCEPT !.Killed = Append(@, Mutant(name, f, "PASS")),
                   !.Stats.KilledCount = @ + 1]
    [] code = 1 ->
         [r EXCEPT !.Escaped = Append(@, Mutant(name, f, "FAIL")),
                   !.Stats.EscapedCount = @ + 1]
    [] code = 2 ->
         [r EXCEPT !.Stats.SkippedCount = @ + 1]
    [] OTHER ->
         [r EXCEPT !.Errored = Append(@, Mutant(name, f, "UNKOWN")),
                   !.Stats.ErrorCount = @ + 1]

\* (mutant) the score taken over every counted mutant
MsiScoreOverAll(st) ==
  IF st.KilledCount + st.EscapedCount + st.SkippedCount + st.ErrorCount > 0
    THEN <<st.KilledCount,
           st.KilledCount + st.EscapedCount + st.SkippedCount + st.ErrorCount>>
    ELSE <<0, 1>>

\* Msi as the fraction <<numerator, denominator>>
MsiScore(st) ==
  IF st.KilledCount + st.EscapedCount > 0
    THEN <<st.KilledCount, st.KilledCount + st.EscapedCount>>
    ELSE <<0, 1>>

TotalCount(st) ==
  st.KilledCount + st.EscapedCount + st.SkippedCount + st.DuplicatedCount + st.ErrorCount

\* report.Calculate()
Calculate(r) ==
  [r EXCEPT !.Stats.Msi = MsiScore(r.Stats),
            !.Stats.TotalMutantsCount = TotalCount(r.Stats)]

\* ------------------------------------------------------------- mainCmd
\* the loop MUTATOR over mutator.List() and os.MkdirTemp: a panic of the
\* selection or a failure of MkdirTemp ends the process
mainSelect ==
  /\ cpc = "select"
  /\ IF SelectPanics(opts.DisableMutators)
       THEN /\ cpc' = "panicked"
            /\ UNCHANGED << tmpDirExists, faults >>
       ELSE \E mkdirOk \in BOOLEAN :
              /\ faults + Failed(mkdirOk) <= MaxFaults
              /\ faults' = faults + Failed(mkdirOk)
              /\ IF mkdirOk
                  THEN /\ tmpDirExists' = TRUE
                       /\ cpc' = "files"
                  ELSE /\ cpc' = "panicked"
                       /\ UNCHANGED tmpDirExists
  /\ UNCHANGED << envVars, mutationBlackList, src, disk, tmpDir, report, fileIdx, mIdx,
                  mutationID, saved, execExitCode, testStatus, execErr, walkerVars,
                  yields, acks, yielded, exclusions >>

\* one round of `for _, file := range files`: the original is copied into the
\* temp directory, then mutate runs over the whole file
mainFile ==
  /\ cpc = "files"
  /\ fileIdx <= NumFiles
  /\ \E parseOk, copyOk \in BOOLEAN :
       /\ ~parseOk => copyOk
       /\ faults + Failed(parseOk) + Failed(copyOk) <= MaxFaults
       /\ faults' = faults + Failed(parseOk) + Failed(copyOk)
       /\ IF ~parseOk
           THEN /\ cpc' = "returned"
                /\ UNCHANGED << tmpDir, mIdx, mutationID, exclusions >>
           ELSE /\ exclusions' = Collect(parsed[fileIdx], comments[fileIdx], {})
                /\ IF copyOk /\ disk[fileIdx].file.exists
                    THEN /\ tmpDir' = tmpDir \cup
                                        {OriginalFile(fileIdx, disk[fileIdx].file.bytes)}
                         /\ cpc' = "mutators"
                         /\ mIdx' = 1
                         /\ mutationID' = 0
                    ELSE /\ cpc' = "panicked"
                         /\ UNCHANGED << tmpDir, mIdx, mutationID >>
  /\ UNCHANGED << envVars, mutationBlackList, src, disk, report, fileIdx, saved,
                  execExitCode, testStatus, execErr, walkerVars, yields, acks,
                  yielded, tmpDirExists >>

\* after the last file: os.RemoveAll(tmpDir) unless the user keeps the folder
mainCleanup ==
  /\ cpc = "files"
  /\ fileIdx > NumFiles
  /\ IF opts.DoNotRemoveTmpFolder
       THEN /\ cpc' = "report"
            /\ UNCHANGED << tmpDir, tmpDirExists, faults >>
       ELSE \E removeOk \in BOOLEAN :
              /\ faults + Failed(removeOk) <= MaxFaults
              /\ faults' = faults + Failed(removeOk)
              /\ IF removeOk
                  THEN /\ tmpDir' = {}
                       /\ tmpDirExists' = FALSE
                       /\ cpc' = "report"
                  ELSE /\ cpc' = "panicked"
                       /\ UNCHANGED << tmpDir, tmpDirExists >>
  /\ UNCHANGED << envVars, mutationBlackList, src, disk, report, fileIdx, mIdx,
                  mutationID, saved, execExitCode, testStatus, execErr, walkerVars,
                  yields, acks, yielded, exclusions >>

\* report.Calculate(), the summary and the report file
mainReport ==
  /\ cpc = "report"
  /\ report' = Calculate(report)
  /\ \E writeOk \in BOOLEAN :
       /\ faults + Failed(writeOk) <= MaxFaults
       /\ faults' = faults + Failed(writeOk)
       /\ cpc' = IF writeOk THEN "done" ELSE "returned"
  /\ UNCHANGED << envVars, mutationBlackList, src, disk, tmpDir, fileIdx, mIdx,
                  mutationID, saved, execExitCode, testStatus, execErr, walkerVars,
                  yields, acks, yielded, exclusions, tmpDirExists >>

\* ------------------------------------------------------------- mutate
\* `for _, m := range mutators`: MutateWalk starts the walker on the file
mutateWalk ==
  /\ cpc = "mutators"
  /\ mIdx <= Len(mutators)
  /\ cpc' = "recv"
  /\ wpc' = "visit"
  /\ wstack' = <<Root>>
  /\ wnode' = 0
  /\ wmuts' = <<>>
  /\ wcur' = NoMutation
  /\ closed' = FALSE
  /\ UNCHANGED << envVars, mutationBlackList, src, disk, tmpDir, report, fileIdx, mIdx,
                  mutationID, saved, execExitCode, testStatus, execErr, yields, acks, faults,
                  yielded, exclusions, tmpDirExists >>

\* `return mutationID`, back in mainCmd's loop
mutateReturn ==
  /\ cpc = "mutators"
  /\ mIdx > Len(mutators)
  /\ cpc' = "files"
  /\ fileIdx' = fileIdx + 1
  /\ mIdx' = 0
  /\ UNCHANGED << envVars, mutationBlackList, src, disk, tmpDir, report, mutationID,
                  saved, execExitCode, testStatus, execErr, walkerVars, yields, acks, faults,
                  yielded, exclusions, tmpDirExists >>

\* (mutant) an error of saveAST falls through to the execution
SaveBranchExecOnError(ret, noExec) ==
  IF (~ret.err /\ ret.duplicate) \/ noExec THEN "ack1" ELSE "exec"

\* (mutant) --no-exec is not looked at
SaveBranchIgnoresNoExec(ret, noExec) ==
  IF ret.err \/ ret.duplicate THEN "ack1" ELSE "exec"

\* if err != nil / else if duplicate / else: where mutate goes after saveAST
SaveBranch(ret, noExec) ==
  IF ret.err \/ ret.duplicate \/ noExec THEN "ack1" ELSE "exec"

\* os.ReadFile(originalFile), saveAST, and the branch on its result
mutateSave ==
  /\ cpc = "save"
  /\ \E readOk \in BOOLEAN, outcome \in SaveOutcomes :
       /\ faults + Failed(readOk) + Failed(outcome = "ok") <= MaxFaults
       /\ faults' = faults + Failed(readOk) + Failed(outcome = "ok")
       /\ IF ~(readOk /\ disk[fileIdx].file.exists)
           THEN /\ cpc' = "fatal"
                /\ UNCHANGED << mutationBlackList, tmpDir, report, saved >>
           ELSE LET r == saveAST(mutationBlackList, tmpDir, fileIdx, mutationID,
                                 src[fileIdx], outcome)
                IN  /\ mutationBlackList' = r.blackList
                    /\ tmpDir' = r.dir
                    /\ saved' = r.ret
                    /\ report' = IF ~r.ret.err /\ r.ret.duplicate
                                   THEN [report EXCEPT !.Stats.DuplicatedCount = @ + 1]
                                   ELSE report
                    /\ cpc' = SaveBranch(r.ret, opts.NoExec)
  /\ UNCHANGED << envVars, src, disk, fileIdx, mIdx, mutationID, execExitCode,
                  testStatus, execErr, walkerVars, yields, acks,
                  yielded, exclusions, tmpDirExists >>

\* mutateExec, built-in branch
mutateExecBuiltin ==
  /\ cpc = "exec"
  /\ ~opts.Exec
  /\ \E in \in InternalInputs :
       LET r == mutateExecInternal(disk[fileIdx], saved.bytes, in)
           n == Failed(in.diffRuns) + Failed(in.renameOk) + Failed(in.copyOk)
                  + Failed(in.testRuns) + Failed(in.restoreOk)
       IN  /\ faults + n <= MaxFaults
           /\ faults' = faults + n
           /\ disk' = [disk EXCEPT ![fileIdx] = r.disk]
           /\ execExitCode' = r.code
           /\ testStatus' = r.status
           /\ execErr' = r.err
           /\ cpc' = IF r.panicked THEN "panicked" ELSE "classify"
  /\ UNCHANGED << envVars, mutationBlackList, src, tmpDir, report, fileIdx, mIdx,
                  mutationID, saved, walkerVars, yields, acks,
                  yielded, exclusions, tmpDirExists >>

\* mutateExec, user command
mutateExecCommand ==
  /\ cpc = "exec"
  /\ opts.Exec
  /\ \E in \in ExternalInputs :
       LET r == mutateExecExternal(in)
           n == Failed(in.starts) + Failed(in.waits)
       IN  /\ faults + n <= MaxFaults
           /\ faults' = faults + n
           /\ execExitCode' = r.code
           /\ testStatus' = r.status
           /\ execErr' = r.err
           /\ cpc' = IF r.panicked THEN "panicked" ELSE "classify"
  /\ UNCHANGED << envVars, mutationBlackList, src, disk, tmpDir, report, fileIdx, mIdx,
                  mutationID, saved, walkerVars, yields, acks,
                  yielded, exclusions, tmpDirExists >>

\* os.ReadFile(mutationFile) and the switch on execExitCode
mutateClassify ==
  /\ cpc = "classify"
  /\ \E readOk \in BOOLEAN :
       /\ faults + Failed(readOk) <= MaxFaults
       /\ faults' = faults + Failed(readOk)
       /\ IF readOk
           THEN /\ report' = Classify(report, execExitCode, mutators[mIdx].Name, fileIdx)
                /\ cpc' = "ack1"
           ELSE /\ cpc' = "fatal"
                /\ UNCHANGED report
  /\ UNCHANGED << envVars, mutationBlackList, src, disk, tmpDir, fileIdx, mIdx,
                  mutationID, saved, execExitCode, testStatus, execErr, walkerVars, yields, acks,
                  yielded, exclusions, tmpDirExists >>

\* ------------------------------------------------------------- specification
Next ==
  \/ mainSelect \/ mainFile \/ mainCleanup \/ mainReport
  \/ mutateWalk \/ mutateReturn
  \/ mutateSave \/ mutateExecBuiltin \/ mutateExecCommand \/ mutateClassify
  \/ WalkerVisit \/ WalkerChange \/ WalkerDescend \/ WalkerReset \/ WalkerClose
  \/ Yield \/ Ack1 \/ Original \/ Ack2 \/ RecvClosed

Spec == Init /\ [][Next]_vars

SpecAnnotated == InitAnnotated /\ [][Next]_vars

SpecDisable == InitDisable /\ [][Next]_vars

\* the Go scheduler runs a goroutine that can take a step
FairSpec == InitFair /\ [][Next]_vars /\ WF_vars(Next)

\* ------------------------------------------------------------- properties
MutationFiles == {m \in tmpDir : m.kind = "mutation"}

\* the nodes whose body is not the parsed one: the mutations applied right now
Applied ==
  UNION { {<<f, n>> : n \in {k \in DOMAIN src[f] : src[f][k].body # parsed[f][k].body}} :
          f \in Files }

\* C1: in internal mode, whenever mutateExec has been left (by return or by
\* panic) every source file has the contents it had before the run.
C1_OriginalRestored ==
  ~opts.Exec => \A f \in Files : disk[f].file = PreRun(f)

\* C2: between mutants (after the walker's Reset and until its next Change)
\* every tree prints to the bytes of its initial parse.
C2_ResetIsIdentity ==
  wpc \notin {"yield", "ack1", "reset"} =>
    \A f \in Files :
      \/ src[f] = parsed[f]
      \/ FormatSource(Fprint(src[f])) = FormatSource(Fprint(parsed[f]))

\* a second mutant of one walk has been reverted
C2_Witness ==
  /\ wpc = "signal"
  /\ mutationID = 1
  /\ wcur.node = 4
  /\ src = parsed

\* C3: while the consumer holds a yielded mutant (from the receive of the
\* yield to the first acknowledgment) exactly one mutation is applied, and
\* never are two mutations applied at once.
C3_OneMutationApplied ==
  /\ Cardinality(Applied) <= 1
  /\ cpc \in {"save", "exec", "classify", "ack1"} => Cardinality(Applied) = 1

\* the consumer executes the second mutant of a file
C3_Witness ==
  /\ cpc = "exec"
  /\ mutationID = 1
  /\ Applied = {<<fileIdx, 4>>}

\* C4: per mutant the events come in the order apply, yield, acknowledgment,
\* revert, acknowledgment: the tree is changed only with no acknowledgment
\* pending, the first acknowledgment follows the processing of the mutated
\* tree, the revert follows the first acknowledgment, the second
\* acknowledgment follows the revert, the walker moves on only after the
\* second, and every yielded mutant gets exactly two acknowledgments.
C4_Handshake ==
  [][ /\ (src' # src /\ Applied' # {}) => (Applied = {} /\ acks \in {0, 2})
      /\ (yields' # yields) =>
           (Cardinality(Applied) = 1 /\ src' = src /\ acks \in {0, 2} /\ acks' = 0)
      /\ (acks = 0 /\ acks' = 1) => (Cardinality(Applied) = 1 /\ saved # NoSave)
      /\ (src' # src /\ Applied' = {}) => acks = 1
      /\ (acks = 1 /\ acks' = 2) => (Applied = {} /\ src' = src)
      /\ (wstack' # wstack \/ wnode' # wnode) => acks \in {0, 2}
      /\ acks' \in {acks, acks + 1, 0}
      /\ acks' <= 2
    ]_vars

\* two mutants have gone through the whole handshake
C4_Witness ==
  /\ yields = 2
  /\ acks = 2
  /\ Applied = {}

\* C5: two mutation files written during one run never hold the same bytes,
\* whatever files and operators they come from; the fingerprint of every
\* written mutant is in the seen-set.
C5_EmittedDiffer ==
  /\ \A a, b \in MutationFiles :
       (a.file # b.file \/ a.id # b.id) => a.bytes # b.bytes
  /\ \A a \in MutationFiles : a.checksum \in mutationBlackList

\* two mutants were written and a later equal one was found in the seen-set
C5_Witness ==
  /\ blacklistFiles = {}
  /\ Cardinality(MutationFiles) >= 2
  /\ report.Stats.DuplicatedCount >= 1

\* C6: a mutant whose fingerprint was loaded from a blacklist file is never
\* written to the temp directory nor executed, and (its fingerprint once
\* computed) it is counted as Duplicated.
C6_BlacklistNeverEmitted ==
  /\ [](/\ \A a \in MutationFiles : a.checksum \notin blacklistFiles
        /\ cpc \in {"exec", "classify"} => saved.checksum \notin blacklistFiles)
  /\ [][ ( /\ cpc = "save"
           /\ Checksum(Fprint(src[fileIdx])) \in blacklistFiles
           /\ cpc' # "fatal"
           /\ ~saved'.err )
         => ( /\ report'.Stats.DuplicatedCount = report.Stats.DuplicatedCount + 1
              /\ tmpDir' = tmpDir
              /\ saved'.duplicate
              /\ cpc' = "ack1" )
       ]_vars

\* a mutant with a blacklisted fingerprint has been counted as a duplicate
C6_Witness ==
  /\ cpc = "ack1"
  /\ saved.duplicate
  /\ saved.checksum \in blacklistFiles
  /\ report.Stats.DuplicatedCount = 1
  /\ MutationFiles = {}

\* the step of mutate that puts an executed mutant into the report
ClassifyStep == cpc = "classify" /\ cpc' = "ack1"

\* the report gains one mutant of the given classification and nothing else
NowKilled ==
  /\ report'.Stats = [report.Stats EXCEPT !.KilledCount = @ + 1]
  /\ Len(report'.Killed) = Len(report.Killed) + 1
  /\ report'.Escaped = report.Escaped /\ report'.Errored = report.Errored
NowEscaped ==
  /\ report'.Stats = [report.Stats EXCEPT !.EscapedCount = @ + 1]
  /\ Len(report'.Escaped) = Len(report.Escaped) + 1
  /\ report'.Killed = report.Killed /\ report'.Errored = report.Errored
NowSkipped ==
  /\ report'.Stats = [report.Stats EXCEPT !.SkippedCount = @ + 1]
  /\ report'.Killed = report.Killed /\ report'.Escaped = report.Escaped
  /\ report'.Errored = report.Errored
NowErrored ==
  /\ report'.Stats = [report.Stats EXCEPT !.ErrorCount = @ + 1]
  /\ Len(report'.Errored) = Len(report.Errored) + 1
  /\ report'.Killed = report.Killed /\ report'.Escaped = report.Escaped

C8_ExternalClassification ==
  [][ /\ (ClassifyStep /\ opts.Exec) =>
           CASE testStatus = 0 -> NowKilled
             [] testStatus = 1 -> NowEscaped
             [] testStatus = 2 -> NowSkipped
             [] OTHER -> NowErrored
      /\ (cpc = "exec" /\ cpc' # "exec" /\ opts.Exec /\ execErr' \in {"nil", "exit"}) =>
           (cpc' = "classify" /\ execExitCode' = testStatus')
    ]_vars

\* a user command ended by a signal: the mutant is errored and the run goes on
C8_Witness ==
  /\ cpc = "ack1"
  /\ opts.Exec
  /\ ~saved.err /\ ~saved.duplicate /\ ~opts.NoExec
  /\ testStatus = -1
  /\ execErr = "exit"
  /\ report.Stats.ErrorCount = 1
  /\ report.Stats.KilledCount = 1

\* C9 as stated: at the end of a run the five counters add up to Total and
\* every yielded mutant is in exactly one of them.
C9_EveryYieldCounted ==
  cpc = "done" =>
    /\ TotalCount(report.Stats) = report.Stats.TotalMutantsCount
    /\ TotalCount(report.Stats) = yields

\* C9 as amended: at the end of a run the five counters add up to Total, and
\* every yielded mutant is counted at most once: once when saveAST finds it a
\* duplicate, once when it has been executed (saved, not a duplicate, no-exec
\* not set), and not at all when saveAST fails or no-exec is set.
C9_CountersAddUp ==
  /\ [](/\ cpc = "done" => TotalCount(report.Stats) = report.Stats.TotalMutantsCount
        /\ TotalCount(report.Stats) <= yields)
  /\ [][ /\ (cpc = "save" /\ cpc' # "fatal") =>
              /\ TotalCount(report'.Stats) =
                   TotalCount(report.Stats) + (IF saved'.duplicate THEN 1 ELSE 0)
              /\ (cpc' = "exec") <=> (~saved'.err /\ ~saved'.duplicate /\ ~opts.NoExec)
         /\ ClassifyStep => TotalCount(report'.Stats) = TotalCount(report.Stats) + 1
         /\ (cpc # "save" /\ ~ClassifyStep) =>
              TotalCount(report'.Stats) = TotalCount(report.Stats)
       ]_vars

\* a run with exec ends having counted some but not all of its mutants
C9_Witness ==
  /\ cpc = "done"
  /\ ~opts.NoExec
  /\ report.Stats.TotalMutantsCount >= 1
  /\ report.Stats.SkippedCount >= 1
  /\ report.Stats.TotalMutantsCount < yields

\* C10: once the report is calculated Msi lies in [0,1], is Killed / (Killed +
\* Escaped) when that sum is positive and 0 otherwise; a mutant counted as
\* Skipped, Duplicated or Errored changes neither Killed nor Escaped.
C10_Msi ==
  /\ [](cpc = "done" =>
          LET k == report.Stats.KilledCount
              e == report.Stats.EscapedCount
              msi == report.Stats.Msi
          IN  /\ msi[2] > 0 /\ 0 <= msi[1] /\ msi[1] <= msi[2]
              /\ (k + e > 0) => msi[1] * (k + e) = k * msi[2]
              /\ (k + e = 0) => msi[1] = 0)
  /\ [][ ( \/ report'.Stats.SkippedCount # report.Stats.SkippedCount
           \/ report'.Stats.DuplicatedCount # report.Stats.DuplicatedCount
           \/ report'.Stats.ErrorCount # report.Stats.ErrorCount )
         => ( /\ report'.Stats.KilledCount = report.Stats.KilledCount
              /\ report'.Stats.EscapedCount = report.Stats.EscapedCount
              /\ report'.Stats.Msi = report.Stats.Msi )
       ]_vars

\* a calculated report with a killed and a skipped or errored mutant
C10_Witness ==
  /\ cpc = "done"
  /\ report.Stats.KilledCount = 1
  /\ report.Stats.EscapedCount = 0
  /\ report.Stats.SkippedCount + report.Stats.ErrorCount = 1
  /\ report.Stats.Msi = <<1, 1>>

RECURSIVE PreOrder(_, _), PreOrderList(_, _)
\* the nodes under n in depth-first pre-order
PreOrder(t, n) == <<n>> \o PreOrderList(t, Children(t, n))
PreOrderList(t, l) ==
  IF l = <<>> THEN <<>> ELSE PreOrder(t, Head(l)) \o PreOrderList(t, Tail(l))

\* where x stands in the sequence s
IndexIn(s, x) == CHOOSE i \in 1..Len(s) : s[i] = x

Excluded(n, name) ==
  \E e \in exclusions :
    /\ e.pos = NodePos(n)
    /\ (e.info.Names = {} \/ \E pattern \in e.info.Names : PatternMatches(pattern, name))

\* C12: at a node whose start is excluded for the operator the decorated
\* operator gives no mutation, and no mutant of such a node and operator is
\* ever yielded.
C12_ExcludedNeverYielded ==
  [][ /\ (wpc = "visit" /\ wpc' = "mutations" /\ Excluded(wnode', mutators[mIdx].Name))
           => wmuts' = <<>>
      /\ (yields' # yields) => ~Excluded(wcur.node, mutators[mIdx].Name)
    ]_vars

\* both operators have walked a file whose outer loop is excluded for every
\* operator: the inner loop is the only mutant
C12_Witness ==
  /\ fileIdx = 1
  /\ cpc = "mutators"
  /\ mIdx > Len(mutators)
  /\ Excluded(2, "loop/range_break")
  /\ Excluded(2, "statement/remove")
  /\ Len(yielded) = 1
  /\ yielded[1].node = 4

\* the file of fileIdx has gone through the parser and its collectors
FileParsed ==
  fileIdx <= NumFiles /\ tmpDirExists /\ cpc \notin {"select", "files", "returned"}

\* what a directive comment excludes when the line after it counts: every
\* node that starts on the line after the comment's last line
NextLineExclusions(t, c) ==
  {[line |-> c.end + 1, pos |-> NodePos(n), info |-> [Names |-> c.names]] :
     n \in {k \in DOMAIN t : NodeLine(k) = c.end + 1}}

RangeBreakCalled ==
  wpc = "visit" /\ wpc' = "mutations" /\ mutators[mIdx].Name = "loop/range_break"
RangeBreakApplied ==
  wpc = "mutations" /\ wpc' = "yield" /\ mutators[mIdx].Name = "loop/range_break"

\* C14: loop/range_break gives exactly one mutation for a range loop and none
\* for any other node; calling it leaves the tree as it is; applying its
\* mutation makes the body of the loop a break followed by the statements the
\* body had, in their order, and changes nothing else.
C14_RangeBreak ==
  /\ [](\A f \in Files : \A n \in DOMAIN src[f] :
          Len(MutatorLoopRangeBreak(src[f], n)) =
            IF src[f][n].kind = "range" THEN 1 ELSE 0)
  /\ [][ /\ RangeBreakCalled =>
             /\ src' = src
             /\ Len(wmuts') = IF src[fileIdx][wnode'].kind = "range" THEN 1 ELSE 0
         /\ RangeBreakApplied =>
             /\ src[fileIdx][wnode].kind = "range"
             /\ Len(src'[fileIdx][wnode].body) = Len(src[fileIdx][wnode].body) + 1
             /\ Head(src'[fileIdx][wnode].body) = BreakStmt
             /\ Tail(src'[fileIdx][wnode].body) = src[fileIdx][wnode].body
             /\ \A f \in Files : \A n \in DOMAIN src[f] :
                  (f # fileIdx \/ n # wnode) => src'[f][n] = src[f][n]
       ]_vars

\* the mutation of the outer loop is applied: break, the statement, the inner loop
C14_Witness ==
  /\ wpc = "yield"
  /\ mutators[mIdx].Name = "loop/range_break"
  /\ wcur.node = 2
  /\ src[fileIdx][2].body = <<BreakStmt, 3, 4>>

\* the mutations the operators propose on the parsed tree of file f: operator,
\* node and place in the operator's list
Sites(f) ==
  { p \in (1..Len(MutatorList)) \X (DOMAIN parsed[f]) \X (DOMAIN parsed[f]) :
      p[3] <= Len(RunMutator(MutatorList[p[1]], parsed[f], p[2])) }

AllSites == Cardinality(UNION { {f} \X Sites(f) : f \in Files })

\* C15: a mutant whose serialization fails is dropped: no mutation file is
\* written, it is not executed and the report stays as it is; the consumer
\* goes on to the first acknowledgment, and a run that gets through all its
\* files has received every mutant of every file, those after the failure too.
C15_SaveErrorDropsMutant ==
  /\ [][ (cpc = "save" /\ cpc' # "fatal" /\ saved'.err) =>
           (cpc' = "ack1" /\ report' = report /\ tmpDir' = tmpDir /\ disk' = disk)
       ]_vars
  /\ []((cpc = "files" /\ fileIdx > NumFiles) => yields = AllSites)

\* the first mutant of a file was dropped (not written, not counted) and the
\* second one has been yielded, written, executed and counted
C15_Witness ==
  /\ cpc = "ack1"
  /\ ~opts.NoExec
  /\ yields = 2 /\ mutationID = 1
  /\ ~saved.err /\ ~saved.duplicate
  /\ TotalCount(report.Stats) = 1
  /\ \E m \in MutationFiles : m.file = fileIdx /\ m.id = 1
  /\ \A m \in MutationFiles : ~(m.file = fileIdx /\ m.id = 0)

\* C16: when the rename of the saved .tmp copy back to the source path has
\* failed (the copy is still there) the run has stopped.
C16_RestoreFailureFatal ==
  (\E f \in Files : disk[f].tmp.exists) => cpc \in {"panicked", "fatal"}

\* C17: once mainCmd has returned, with whatever exit code, the temp
\* directory of the run is gone unless the user keeps it.
C17_TmpDirRemoved ==
  (cpc \in {"done", "returned"} /\ ~opts.DoNotRemoveTmpFolder) => ~tmpDirExists

\* C18: with --no-exec no test command runs and no source file is renamed or
\* overwritten; every mutant that is serialized and is no duplicate is
\* written to the temp directory; a run that gets through its files has
\* received every mutant; and Killed, Escaped, Skipped and Errored stay 0
\* with empty buckets.
C18_NoExec ==
  /\ [](opts.NoExec =>
          /\ cpc \notin {"exec", "classify"}
          /\ \A f \in Files : disk[f] = [file |-> PreRun(f), tmp |-> Absent]
          /\ report.Stats.KilledCount = 0 /\ report.Stats.EscapedCount = 0
          /\ report.Stats.SkippedCount = 0 /\ report.Stats.ErrorCount = 0
          /\ report.Killed = <<>> /\ report.Escaped = <<>> /\ report.Errored = <<>>
          /\ (cpc = "files" /\ fileIdx > NumFiles) => yields = AllSites)
  /\ [][ (opts.NoExec /\ cpc = "save" /\ cpc' = "ack1" /\ ~saved'.err /\ ~saved'.duplicate)
           => /\ MutationFile(fileIdx, mutationID, FormatSource(Fprint(src[fileIdx])),
                              Checksum(Fprint(src[fileIdx]))) \in tmpDir'
              /\ testStatus' = testStatus /\ execErr' = execErr
       ]_vars

\* a --no-exec run is through its files: two mutants written, a duplicate found
C18_Witness ==
  /\ opts.NoExec
  /\ cpc = "files" /\ fileIdx > NumFiles
  /\ Cardinality(MutationFiles) >= 2
  /\ report.Stats.DuplicatedCount >= 1
  /\ yields = AllSites

\* s is the beginning of t
IsPrefix(s, t) == Len(s) <= Len(t) /\ \A i \in 1..Len(s) : s[i] = t[i]

\* C19: walker and consumer never block each other for good: every run comes
\* to its end, and at the end no send is left unmatched (the walker is idle,
\* or waits for an acknowledgment when the consumer has ended the process);
\* a receive of the consumer ends with a mutant or with the closed channel
\* and the next operator; every yielded mutant is received once; and while a
\* file without mutation sites is walked the report stays as it is.
C19_NoDeadlock ==
  /\ <>(cpc \in {"done", "returned", "panicked", "fatal"})
  /\ (cpc = "recv") ~> (cpc \in {"save", "mutators"})
  /\ [](/\ cpc \in {"panicked", "fatal"} => wpc \in {"idle", "ack1"}
        /\ cpc \in {"done", "returned", "files", "mutators", "report"} => wpc = "idle"
        /\ cpc = "done" => yields = AllSites
        /\ yields = Len(yielded))
  /\ [][ (fileIdx <= NumFiles /\ Sites(fileIdx) = {}) => report' = report ]_vars

\* a run has ended in which the first file had no mutation site and the
\* second file yielded its three mutants
C19_Witness ==
  /\ cpc = "done"
  /\ Sites(1) = {}
  /\ yields = 3
  /\ wpc = "idle" /\ closed

\* C20: each bucket holds as many records as its counter says; records are
\* only ever appended; a step that counts a mutant as Skipped or Duplicated
\* leaves the buckets as they are.
C20_BucketsMatchCounters ==
  /\ [](/\ Len(report.Killed) = report.Stats.KilledCount
        /\ Len(report.Escaped) = report.Stats.EscapedCount
        /\ Len(report.Errored) = report.Stats.ErrorCount)
  /\ [][ /\ IsPrefix(report.Killed, report'.Killed)
         /\ IsPrefix(report.Escaped, report'.Escaped)
         /\ IsPrefix(report.Errored, report'.Errored)
         /\ ( \/ report'.Stats.SkippedCount # report.Stats.SkippedCount
              \/ report'.Stats.DuplicatedCount # report.Stats.DuplicatedCount )
            => ( /\ report'.Killed = report.Killed
                 /\ report'.Escaped = report.Escaped
                 /\ report'.Errored = report.Errored )
       ]_vars

\* a killed mutant is recorded, another was skipped and a third a duplicate
C20_Witness ==
  /\ Len(report.Killed) = 1
  /\ report.Stats.KilledCount = 1
  /\ report.Stats.SkippedCount = 1
  /\ report.Stats.DuplicatedCount >= 1
  /\ report.Escaped = <<>> /\ report.Errored = <<>>

\* the fingerprints of the mutation files written to the temp directory
Emitted == {m.checksum : m \in MutationFiles}

\* the fingerprint of the i-th mutant received: that of the parsed tree of its
\* file with the mutant's body at the mutant's node
Fingerprint(i) ==
  Checksum(Fprint([parsed[yielded[i].file] EXCEPT ![yielded[i].node].body =
                     yielded[i].body]))

\* the fingerprints of the mutants received before the current one
SeenEarlier == {Fingerprint(i) : i \in 1..(Len(yielded) - 1)}

\* C21 as stated: while the temp directory exists every fingerprint of the
\* seen-set was loaded from a blacklist file or is that of a written mutation
\* file, and a mutant is counted as Duplicated only with such a fingerprint.
C21_DuplicateOnlyIfEmitted ==
  /\ [](tmpDirExists => mutationBlackList \subseteq (blacklistFiles \cup Emitted))
  /\ [][ report'.Stats.DuplicatedCount # report.Stats.DuplicatedCount =>
           saved'.checksum \in (blacklistFiles \cup Emitted)
       ]_vars

\* C21: a mutant is counted as Duplicated only if its fingerprint was loaded
\* from a blacklist file or is that of a mutant received earlier in the run,
\* written or not; a fingerprint enters the seen-set only in saveAST, as that
\* of the mutant at hand and when it was not there, and every written mutation
\* file has its fingerprint in the seen-set.
C21_DuplicateOnlyIfSeen ==
  /\ [](/\ mutationBlackList \subseteq
             (blacklistFiles \cup {Fingerprint(i) : i \in 1..Len(yielded)})
        /\ (blacklistFiles \cup Emitted) \subseteq mutationBlackList)
  /\ [][ /\ report'.Stats.DuplicatedCount # report.Stats.DuplicatedCount =>
             ( /\ cpc = "save"
               /\ saved'.duplicate
               /\ saved'.checksum = Checksum(Fprint(src[fileIdx]))
               /\ saved'.checksum = Fingerprint(Len(yielded))
               /\ saved'.checksum \in (blacklistFiles \cup SeenEarlier)
               /\ mutationBlackList' = mutationBlackList
               /\ tmpDir' = tmpDir )
         /\ mutationBlackList' # mutationBlackList =>
             ( /\ cpc = "save"
               /\ ~saved'.duplicate
               /\ mutationBlackList' =
                    mutationBlackList \cup {Checksum(Fprint(src[fileIdx]))}
               /\ (saved'.err => tmpDir' = tmpDir) )
       ]_vars

\* a mutant has been counted as a duplicate although its fingerprint comes
\* from no blacklist file and no mutation file carries it: the earlier mutant
\* with that fingerprint was not written
C21_Witness ==
  /\ cpc = "ack1"
  /\ tmpDirExists
  /\ saved.duplicate
  /\ report.Stats.DuplicatedCount = 1
  /\ saved.checksum \notin (blacklistFiles \cup Emitted)
  /\ saved.checksum \in SeenEarlier

\* whether the --disable entry d matches the operator name as C22 says: by
\* the text before a trailing star as a prefix, else by identity
EntryMatches(d, name) ==
  IF HasSuffix(Bytes(d), << "*" >>)
    THEN HasPrefix(Bytes(name), SubSeq(Bytes(d), 1, Len(Bytes(d)) - 1))
    ELSE Bytes(d) = Bytes(name)

\* the names of the operators enabled for the run
EnabledNames == {mutators[i].Name : i \in DOMAIN mutators}

\* C22: the selection of the operators never fails (the process goes on to
\* create the temp directory), and once it is over an operator is enabled
\* if and only if no --disable entry matches its name.
C22_DisableSelection ==
  /\ [][ (cpc = "select" /\ cpc' = "panicked") => faults' # faults ]_vars
  /\ [](cpc \notin {"select", "panicked"} =>
          \A i \in 1..Len(MutatorList) :
            MutatorList[i] \in EnabledNames <=>
              ~\E k \in 1..Len(opts.DisableMutators) :
                 EntryMatches(opts.DisableMutators[k], MutatorList[i]))

====
